---- MODULE Spec2Model ----
(***************************************************************************)
(* AgentGambler: the portfolio ledger (trading/portfolio.py), the risk     *)
(* engine (strategies/gamblers_logic.py), the executor                     *)
(* (trading/executor.py) and the agent's loop (agent.py) as state          *)
(* machines.                                                               *)
(*                                                                         *)
(* Numbers.  The program computes with Python floats.  The model computes  *)
(* with exact rationals <<n, d>> (d > 0, lowest terms), so every sum,      *)
(* product and quotient below is the real-number value of the Python       *)
(* expression; IEEE rounding, infinities and NaN are not modelled.         *)
(* Optional values: None is the empty tuple <<>>, a present rational is    *)
(* the pair itself, a present record r is the one-element sequence <<r>>.  *)
(***************************************************************************)
EXTENDS Integers, Sequences, FiniteSets, TLC

VARIABLES
    \* PortfolioManager
    positions,            \* dict position_id -> Position
    trade_history,        \* list of TradeRecord
    current_balance,      \* cash
    total_realized_pnl,
    total_fees_paid,
    disk,                 \* data/portfolio_state.json: <<>> (no file) or <<snapshot>>
    now,                  \* time.time(), a logical clock
    call,                 \* the last call made on the ledger and what it returned
    \* GamblersLogic
    consecutive_losses,
    consecutive_wins,
    total_bets,
    winning_bets,
    current_streak_type,  \* "none" (Python None), "win", "loss"
    peak_bankroll,
    current_bankroll,
    doublings_achieved,
    bet_history,          \* list of {won, pnl, bankroll_after}
    optimism_level,       \* config.optimism_level
    decision,             \* what the last evaluate_opportunity or
                          \* rank_opportunities returned: the decisions
    \* TradeExecutor
    live_mode,            \* live mode with a connected wallet (w3 and account)
    result,               \* how the last execute_bet ended
    \* AgentGambler
    pc,                   \* where the agent's process is
    running,
    cycle_count,
    decisions,            \* the decisions _execute_decisions still has to take
    stopped,              \* the ids _monitor_positions still has to close
    console               \* the last message the agent printed

ledgerVars == <<positions, trade_history, current_balance, total_realized_pnl,
                total_fees_paid>>
engineVars == <<consecutive_losses, consecutive_wins, total_bets, winning_bets,
                current_streak_type, peak_bankroll, current_bankroll,
                doublings_achieved, bet_history>>
loopVars == <<pc, running, cycle_count, decisions, stopped, console>>
agentVars == <<live_mode, result, pc, running, cycle_count, decisions, stopped,
               console>>
vars == <<positions, trade_history, current_balance, total_realized_pnl,
          total_fees_paid, disk, now, call,
          consecutive_losses, consecutive_wins, total_bets, winning_bets,
          current_streak_type, peak_bankroll, current_bankroll,
          doublings_achieved, bet_history, optimism_level, decision,
          live_mode, result, pc, running, cycle_count, decisions, stopped,
          console>>

----------------------------------------------------------------------------
(* Exact rational arithmetic *)

Abs(n) == IF n < 0 THEN -n ELSE n

RECURSIVE GCD(_, _)
GCD(a, b) ==
    IF b = 0 THEN a ELSE CHOOSE g \in {GCD(b, r) : r \in {a % b}} : TRUE

\* n/d in lowest terms with a positive denominator (d # 0). The operators
\* below bind their operands in a one-element set, so that each operand is
\* evaluated once
R(n, d) ==
    CHOOSE r \in {<<(s * p) \div g, (s * q) \div g>> :
                      <<p, q, g, s>> \in {<<n, d, GCD(Abs(n), Abs(d)),
                                            IF d < 0 THEN -1 ELSE 1>>}} : TRUE

Zero == <<0, 1>>
One == <<1, 1>>
None == <<>>

Add(x, y) ==
    CHOOSE r \in {R(a[1] * b[2] + b[1] * a[2], a[2] * b[2]) :
                      a \in {x}, b \in {y}} : TRUE
Sub(x, y) ==
    CHOOSE r \in {R(a[1] * b[2] - b[1] * a[2], a[2] * b[2]) :
                      a \in {x}, b \in {y}} : TRUE
Mul(x, y) ==
    CHOOSE r \in {R(a[1] * b[1], a[2] * b[2]) : a \in {x}, b \in {y}} : TRUE
Div(x, y) ==
    CHOOSE r \in {R(a[1] * b[2], a[2] * b[1]) : a \in {x}, b \in {y}} : TRUE
Neg(x) == <<-x[1], x[2]>>
Lt(x, y) == x[1] * y[2] < y[1] * x[2]
Le(x, y) == x[1] * y[2] <= y[1] * x[2]
Gt(x, y) == Lt(y, x)
Ge(x, y) == Le(y, x)
RMin(x, y) == IF Lt(y, x) THEN y ELSE x
RMax(x, y) == IF Gt(y, x) THEN y ELSE x
RAbs(x) == <<Abs(x[1]), x[2]>>

----------------------------------------------------------------------------
(* Configuration (config.py) *)

starting_capital_usd == R(2, 1)
max_single_bet_pct == R(1, 4)
stop_loss_pct == R(15, 100)
kelly_fraction == R(1, 2)
min_edge_threshold == R(5, 100)
moonshot_target_usd == R(2000000, 1)
max_leverage == R(5, 1)

----------------------------------------------------------------------------
(* Bounds of the model *)

MaxTime == 4
MaxBets == 6

----------------------------------------------------------------------------
(* Position (portfolio.py, dataclass Position) *)

\* Python's "leverage and leverage > 1.0"
Leveraged(leverage) == leverage # None /\ Gt(leverage, One)

LongSides == {"yes", "long"}

\* unrealized_pnl with the side ignored: every position valued as a long
unrealized_pnl_LongOnly(p) ==
    LET pnl == Mul(Sub(p.current_price, p.entry_price), p.quantity)
    IN  IF Leveraged(p.leverage) THEN Mul(pnl, p.leverage) ELSE pnl

\* Position.unrealized_pnl
unrealized_pnl(p) ==
    LET pnl == IF p.side \in LongSides
               THEN Mul(Sub(p.current_price, p.entry_price), p.quantity)
               ELSE Mul(Sub(p.entry_price, p.current_price), p.quantity)
    IN  IF Leveraged(p.leverage) THEN Mul(pnl, p.leverage) ELSE pnl

\* Position.unrealized_pnl_pct
unrealized_pnl_pct(p) ==
    IF p.size_usd = Zero THEN Zero
    ELSE Mul(Div(unrealized_pnl(p), p.size_usd), R(100, 1))

\* Position.hold_duration_mins, read at time t
hold_duration_mins(p, t) == R(t - p.entry_time, 60)

\* datetime.fromtimestamp(t).isoformat() and datetime.now().isoformat()
IsoFormat(t) == <<"iso", t>>

\* The cash open_position locks for a position (line 208)
Collateral(size_usd, leverage) ==
    IF Leveraged(leverage) THEN Div(size_usd, leverage) ELSE size_usd

\* ReturnedCapital with the leverage ignored: the full size is returned
ReturnedCapital_FullSize(position) == position.size_usd

\* The capital close_position returns besides the P&L (lines 228-232)
ReturnedCapital(position) ==
    IF Leveraged(position.leverage)
    THEN Div(position.size_usd, position.leverage)
    ELSE position.size_usd

\* The Position that open_position constructs (lines 188-204)
NewPosition(position_id, in, t) ==
    [ position_id       |-> position_id,
      platform          |-> in.platform,
      market_id         |-> in.market_id,
      market_name       |-> in.market_name,
      side              |-> in.side,
      entry_price       |-> in.entry_price,
      current_price     |-> in.entry_price,
      size_usd          |-> in.size_usd,
      quantity          |-> IF Gt(in.entry_price, Zero)
                            THEN Div(in.size_usd, in.entry_price) ELSE Zero,
      stop_loss         |-> in.stop_loss,
      take_profit       |-> in.take_profit,
      entry_time        |-> t,
      status            |-> "open",
      leverage          |-> in.leverage,
      liquidation_price |-> in.liquidation_price,
      funding_rate      |-> Zero ]

----------------------------------------------------------------------------
(* PortfolioManager: derived properties *)

EmptyMap == [x \in {} |-> x]

Put(m, k, v) == [x \in DOMAIN m \cup {k} |-> IF x = k THEN v ELSE m[x]]

RECURSIVE RSum(_, _)
RSum(f, S) ==
    IF S = {} THEN Zero
    ELSE LET x == CHOOSE y \in S : TRUE
         IN  Add(f[x], RSum(f, S \ {x}))

OpenIds(pos) == {pid \in DOMAIN pos : pos[pid].status = "open"}

\* PortfolioManager.total_exposure
total_exposure(pos) ==
    RSum([pid \in OpenIds(pos) |->
            IF Leveraged(pos[pid].leverage)
            THEN Add(Div(pos[pid].size_usd, pos[pid].leverage),
                     unrealized_pnl(pos[pid]))
            ELSE Add(pos[pid].size_usd, unrealized_pnl(pos[pid]))],
         OpenIds(pos))

\* PortfolioManager.available_balance
available_balance(bal, pos) == Sub(bal, total_exposure(pos))

\* PortfolioManager.total_portfolio_value
total_portfolio_value(bal, pos) ==
    Add(bal, RSum([pid \in OpenIds(pos) |-> unrealized_pnl(pos[pid])],
                  OpenIds(pos)))

----------------------------------------------------------------------------
(* Inputs of the ledger's operations *)

PositionIds == {"pos_a", "pos_b"}

In(side, entry_price, size_usd, stop_loss, take_profit, leverage, liq) ==
    [ platform          |-> IF side \in {"yes", "no"} THEN "polymarket"
                            ELSE IF leverage # None THEN "hyperliquid"
                            ELSE "base_dex",
      market_id         |-> IF side \in {"yes", "no"} THEN "0xmkt" ELSE "ETH",
      market_name       |-> IF side \in {"yes", "no"} THEN "Will it?" ELSE "ETH-USD",
      side              |-> side,
      entry_price       |-> entry_price,
      size_usd          |-> size_usd,
      stop_loss         |-> stop_loss,
      take_profit       |-> take_profit,
      leverage          |-> leverage,
      liquidation_price |-> liq ]

\* The arguments open_position is called with: every side, with and without
\* stop, target and leverage, a price and a size that are not positive, and
\* collateral above the starting cash.
OpenInputs ==
    { In("yes",   R(1, 2), R(1, 1),  None,    None,    None,    None),
      In("yes",   R(1, 2), R(1, 1),  R(1, 4), R(1, 1), None,    None),
      In("no",    R(1, 2), R(1, 1),  R(3, 4), None,    None,    None),
      In("long",  R(1, 1), R(1, 1),  R(1, 2), None,    R(2, 1), R(1, 2)),
      In("short", R(1, 1), R(1, 1),  None,    R(1, 2), None,    None),
      In("short", R(1, 1), R(3, 1),  None,    None,    R(2, 1), None),
      In("long",  R(1, 2), R(3, 1),  None,    None,    None,    None),
      In("yes",   R(0, 1), R(1, 1),  None,    None,    None,    None),
      In("long",  R(1, 1), R(0, 1),  None,    None,    None,    None) }

Prices == {R(1, 4), R(1, 2), R(1, 1)}

\* The reason passed by the one caller of close_position (agent.py line 221)
ExitReasons == {"stop_loss"}

\* What is recorded of a call on the ledger: the operation, its arguments,
\* the record or the ids it returned, the exception it raised ("" when it
\* returned), and the cash and realized total it found
Call(op, position_id, input, price, ret) ==
    [ op |-> op, position_id |-> position_id, input |-> input, price |-> price,
      ret |-> ret, to_close |-> {}, raised |-> "",
      balance_before |-> current_balance,
      realized_before |-> total_realized_pnl ]

\* The record of a call that returned the ids
Returning(c, ids) == [c EXCEPT !.to_close = ids]

\* The record of a call that ended by raising exc
Raising(c, exc) == [c EXCEPT !.raised = exc]

NoCall == Call("none", "", <<>>, None, <<>>)

----------------------------------------------------------------------------
(* PortfolioManager: operations *)

\* PortfolioManager.open_position
open_position(position_id, in) ==
    LET position == NewPosition(position_id, in, now)
        collateral == Collateral(in.size_usd, in.leverage)
    IN  /\ positions' = Put(positions, position_id, position)
        /\ current_balance' = Sub(current_balance, collateral)
        /\ now' = now + 1
        /\ call' = Call("open_position", position_id, <<in>>, in.entry_price,
                         <<position>>)
        /\ UNCHANGED <<trade_history, total_realized_pnl, total_fees_paid, disk>>
        /\ UNCHANGED engineVars /\ UNCHANGED <<optimism_level, decision>>

\* The position close_position works on after lines 220-221
Closing(position, exit_price) ==
    [position EXCEPT !.current_price = exit_price, !.status = "closed"]

\* The TradeRecord close_position builds (lines 235-249)
NewTradeRecord(position, exit_price, exit_reason, t) ==
    [ position_id        |-> position.position_id,
      platform           |-> position.platform,
      market_name        |-> position.market_name,
      side               |-> position.side,
      entry_price        |-> position.entry_price,
      exit_price         |-> exit_price,
      size_usd           |-> position.size_usd,
      realized_pnl       |-> unrealized_pnl(position),
      realized_pnl_pct   |-> unrealized_pnl_pct(position),
      hold_duration_mins |-> hold_duration_mins(position, t),
      entry_time         |-> IsoFormat(position.entry_time),
      exit_time          |-> IsoFormat(t),
      rationale          |-> "",
      exit_reason        |-> exit_reason ]

\* CanClose without the status test: a closed position is closed again
CanClose_IgnoresStatus(pos, position_id) == position_id \in DOMAIN pos

\* The guard of close_position (lines 216-218): the position it will close
CanClose(pos, position_id) ==
    position_id \in DOMAIN pos /\ pos[position_id].status = "open"

\* PortfolioManager.close_position
close_position(position_id, exit_price, exit_reason) ==
    /\ now' = now + 1
    /\ UNCHANGED disk
    /\ UNCHANGED engineVars /\ UNCHANGED <<optimism_level, decision>>
    /\ IF ~CanClose(positions, position_id)
       THEN /\ call' = Call("close_position", position_id, <<>>, exit_price, <<>>)
            /\ UNCHANGED ledgerVars
       ELSE LET position == Closing(positions[position_id], exit_price)
                pnl == unrealized_pnl(position)
                record == NewTradeRecord(position, exit_price, exit_reason, now)
            IN  /\ positions' = [positions EXCEPT ![position_id] = position]
                /\ current_balance' =
                       Add(current_balance, Add(ReturnedCapital(position), pnl))
                /\ total_realized_pnl' = Add(total_realized_pnl, pnl)
                /\ trade_history' = Append(trade_history, record)
                /\ call' = Call("close_position", position_id, <<>>, exit_price,
                                 <<record>>)
                /\ UNCHANGED total_fees_paid

\* PortfolioManager.update_position_price
update_position_price(position_id, price) ==
    /\ now' = now + 1
    /\ positions' = IF position_id \in DOMAIN positions
                    THEN [positions EXCEPT ![position_id].current_price = price]
                    ELSE positions
    /\ call' = Call("update_position_price", position_id, <<>>, price, <<>>)
    /\ UNCHANGED <<trade_history, current_balance, total_realized_pnl,
                   total_fees_paid, disk>>
    /\ UNCHANGED engineVars /\ UNCHANGED <<optimism_level, decision>>

\* StopBreached with the side ignored: every stop tested as a long's
StopBreached_LongOnly(pos) == Le(pos.current_price, pos.stop_loss)

\* The stop test of check_stop_losses on a position with a stop (lines
\* 267-270)
StopBreached(pos) ==
    \/ pos.side \in {"yes", "long"} /\ Le(pos.current_price, pos.stop_loss)
    \/ pos.side \in {"no", "short"} /\ Ge(pos.current_price, pos.stop_loss)

\* The ids check_stop_losses returns (lines 262-272)
ToClose(pos) ==
    {pid \in DOMAIN pos : /\ pos[pid].status = "open"
                          /\ pos[pid].stop_loss # None
                          /\ StopBreached(pos[pid])}

\* PortfolioManager.check_stop_losses
check_stop_losses ==
    /\ now' = now + 1
    /\ call' = Returning(Call("check_stop_losses", "", <<>>, None, <<>>),
                          ToClose(positions))
    /\ UNCHANGED <<ledgerVars, disk>>
    /\ UNCHANGED engineVars /\ UNCHANGED <<optimism_level, decision>>

\* The dict save_state writes for one position (lines 303-319)
PositionDict(p) ==
    [ position_id       |-> p.position_id,
      platform          |-> p.platform,
      market_id         |-> p.market_id,
      market_name       |-> p.market_name,
      side              |-> p.side,
      entry_price       |-> p.entry_price,
      current_price     |-> p.current_price,
      size_usd          |-> p.size_usd,
      quantity          |-> p.quantity,
      stop_loss         |-> p.stop_loss,
      entry_time        |-> p.entry_time,
      status            |-> p.status,
      leverage          |-> p.leverage,
      liquidation_price |-> p.liquidation_price,
      funding_rate      |-> p.funding_rate ]

\* The state dict save_state dumps (lines 298-323)
Snapshot(bal, rpnl, fees, pos, history) ==
    [ current_balance    |-> bal,
      total_realized_pnl |-> rpnl,
      total_fees_paid    |-> fees,
      positions          |-> [pid \in DOMAIN pos |-> PositionDict(pos[pid])],
      trade_count        |-> Len(history) ]

\* dict.get(k, default)
Get(d, k, default) == IF k \in DOMAIN d THEN d[k] ELSE default

\* The fields of the dataclass Position without a default, and those with one
RequiredFields == {"position_id", "platform", "market_id", "market_name", "side",
                   "entry_price", "current_price", "size_usd", "quantity"}
OptionalFields == {"stop_loss", "take_profit", "entry_time", "status",
                   "leverage", "liquidation_price", "funding_rate"}

\* Position(**pdata) raises TypeError: a required field is missing from the
\* dict, or the dict has a key that is not a field
PositionRaises(pdata) ==
    \/ ~(RequiredFields \subseteq DOMAIN pdata)
    \/ ~(DOMAIN pdata \subseteq RequiredFields \cup OptionalFields)

\* Position(**pdata) of load_state (lines 343-346) at time t: the fields of
\* the dict, and the default for a field the dict does not have
PositionFromDict(pdata, t) ==
    [ position_id       |-> pdata.position_id,
      platform          |-> pdata.platform,
      market_id         |-> pdata.market_id,
      market_name       |-> pdata.market_name,
      side              |-> pdata.side,
      entry_price       |-> pdata.entry_price,
      current_price     |-> pdata.current_price,
      size_usd          |-> pdata.size_usd,
      quantity          |-> pdata.quantity,
      stop_loss         |-> Get(pdata, "stop_loss", None),
      take_profit       |-> Get(pdata, "take_profit", None),
      entry_time        |-> Get(pdata, "entry_time", t),
      status            |-> Get(pdata, "status", "open"),
      leverage          |-> Get(pdata, "leverage", None),
      liquidation_price |-> Get(pdata, "liquidation_price", None),
      funding_rate      |-> Get(pdata, "funding_rate", Zero) ]

\* json.load (line 335) parses the file; a file that is not JSON is kept as
\* its text
IsJson(file) == "text" \notin DOMAIN file

RECURSIVE SeqOf(_)
SeqOf(S) == IF S = {} THEN <<>>
            ELSE LET x == CHOOSE y \in S : TRUE IN <<x>> \o SeqOf(S \ {x})

\* The order in which the "positions" object of a snapshot lists its keys,
\* which is the order the loop of load_state takes them in; key_order states
\* it for a file where it matters
KeyOrder(state) ==
    IF "key_order" \in DOMAIN state THEN state.key_order
    ELSE SeqOf(DOMAIN Get(state, "positions", EmptyMap))

\* The entries of the snapshot the loop of load_state (lines 341-346) gets
\* through: all of them, or those before the first one Position() rejects
LoadedIds(state) ==
    LET entries == Get(state, "positions", EmptyMap)
        order == KeyOrder(state)
        bad == {i \in 1..Len(order) : PositionRaises(entries[order[i]])}
    IN  {order[i] : i \in {j \in 1..Len(order) : \A k \in bad : j < k}}

\* Position(**pdata) raises for an entry of the snapshot
LoadRaises(state) ==
    \E pid \in DOMAIN Get(state, "positions", EmptyMap) :
        PositionRaises(Get(state, "positions", EmptyMap)[pid])

\* The positions map after the loop of load_state (lines 341-346) over the
\* positions of a snapshot
LoadedPositions(pos, state, t) ==
    [pid \in DOMAIN pos \cup LoadedIds(state) |->
        IF pid \in LoadedIds(state)
        THEN PositionFromDict(Get(state, "positions", EmptyMap)[pid], t)
        ELSE pos[pid]]

\* PortfolioManager.save_state
save_state ==
    /\ now' = now + 1
    /\ disk' = <<Snapshot(current_balance, total_realized_pnl, total_fees_paid,
                          positions, trade_history)>>
    /\ call' = Call("save_state", "", <<>>, None, <<>>)
    /\ UNCHANGED ledgerVars
    /\ UNCHANGED engineVars /\ UNCHANGED <<optimism_level, decision>>

\* The body of load_state (lines 330-346) at time t on a ledger holding bal,
\* rpnl, fees and pos, with file the content of portfolio_state.json: what it
\* leaves, and the exception it ends with ("" when it returns)
LoadState(bal, rpnl, fees, pos, file, t) ==
    IF file = <<>>
    THEN [ current_balance |-> bal, total_realized_pnl |-> rpnl,
           total_fees_paid |-> fees, positions |-> pos, raised |-> "" ]
    ELSE IF ~IsJson(file[1])
    THEN [ current_balance |-> bal, total_realized_pnl |-> rpnl,
           total_fees_paid |-> fees, positions |-> pos,
           raised |-> "JSONDecodeError" ]
    ELSE [ current_balance    |-> Get(file[1], "current_balance",
                                      starting_capital_usd),
           total_realized_pnl |-> Get(file[1], "total_realized_pnl", Zero),
           total_fees_paid    |-> Get(file[1], "total_fees_paid", Zero),
           positions          |-> LoadedPositions(pos, file[1], t),
           raised             |-> IF LoadRaises(file[1]) THEN "TypeError" ELSE "" ]

\* PortfolioManager.load_state, on the ledger as it stands
load_state ==
    LET loaded == LoadState(current_balance, total_realized_pnl, total_fees_paid,
                            positions, disk, now)
    IN  /\ now' = now + 1
        /\ call' = Raising(Call("load_state", "", <<>>, None, <<>>), loaded.raised)
        /\ current_balance' = loaded.current_balance
        /\ total_realized_pnl' = loaded.total_realized_pnl
        /\ total_fees_paid' = loaded.total_fees_paid
        /\ positions' = loaded.positions
        /\ UNCHANGED <<trade_history, disk>>
        /\ UNCHANGED engineVars /\ UNCHANGED <<optimism_level, decision>>

\* A new process: PortfolioManager(config) followed by load_state(), as
\* AgentGambler.start and the CLI's status command do
restart ==
    LET loaded == LoadState(starting_capital_usd, Zero, Zero, EmptyMap, disk, now)
    IN  /\ now' = now + 1
        /\ call' = Raising(Call("restart", "", <<>>, None, <<>>), loaded.raised)
        /\ trade_history' = <<>>
        /\ current_balance' = loaded.current_balance
        /\ total_realized_pnl' = loaded.total_realized_pnl
        /\ total_fees_paid' = loaded.total_fees_paid
        /\ positions' = loaded.positions
        /\ UNCHANGED disk
        /\ UNCHANGED engineVars /\ UNCHANGED <<optimism_level, decision>>

----------------------------------------------------------------------------
(* The ledger driven through its public operations *)

\* PortfolioManager.__init__
LedgerInit ==
    /\ positions = EmptyMap
    /\ trade_history = <<>>
    /\ current_balance = starting_capital_usd
    /\ total_realized_pnl = Zero
    /\ total_fees_paid = Zero

\* GamblersLogic.__init__
EngineInit ==
    /\ consecutive_losses = 0
    /\ consecutive_wins = 0
    /\ total_bets = 0
    /\ winning_bets = 0
    /\ current_streak_type = "none"
    /\ peak_bankroll = starting_capital_usd
    /\ current_bankroll = starting_capital_usd
    /\ doublings_achieved = 0
    /\ bet_history = <<>>

\* No execute_bet has ended yet
NoResult ==
    [ returned |-> FALSE, success |-> FALSE, position_id |-> "",
      executed_price |-> Zero, executed_size |-> Zero, fees |-> Zero,
      error |-> "", mode |-> "simulation", raised |-> "" ]

\* AgentGambler.__init__
LoopConstructed ==
    /\ pc = "new"
    /\ running = FALSE
    /\ cycle_count = 0
    /\ decisions = <<>>
    /\ stopped = <<>>
    /\ console = ""

\* TradeExecutor.__init__ in simulation mode and AgentGambler.__init__
AgentConstructed ==
    /\ live_mode = FALSE
    /\ result = NoResult
    /\ LoopConstructed

Init ==
    /\ LedgerInit
    /\ EngineInit
    /\ disk = <<>>
    /\ now = 0
    /\ call = NoCall
    /\ optimism_level = "DELUSIONAL"
    /\ decision = <<>>
    /\ AgentConstructed

\* The clock has not run out
InTime == now < MaxTime

Next ==
    \/ \E position_id \in PositionIds, in \in OpenInputs :
           InTime /\ open_position(position_id, in) /\ UNCHANGED agentVars
    \/ \E position_id \in PositionIds, exit_price \in Prices,
          exit_reason \in ExitReasons :
           /\ InTime
           /\ close_position(position_id, exit_price, exit_reason)
           /\ UNCHANGED agentVars
    \/ \E position_id \in PositionIds, price \in Prices :
           /\ InTime
           /\ update_position_price(position_id, price)
           /\ UNCHANGED agentVars
    \/ InTime /\ check_stop_losses /\ UNCHANGED agentVars
    \/ InTime /\ save_state /\ UNCHANGED agentVars
    \/ InTime /\ load_state /\ UNCHANGED agentVars
    \/ InTime /\ restart /\ UNCHANGED agentVars

Spec == Init /\ [][Next]_vars

----------------------------------------------------------------------------
(* Opportunity (gamblers_logic.py, dataclass Opportunity) *)

PolymarketTypes == {"poly_yes", "poly_no"}

\* Opportunity.perceived_edge
perceived_edge(opp) ==
    IF opp.bet_type \in PolymarketTypes
    THEN RAbs(Sub(opp.estimated_fair_value, opp.current_price))
    ELSE Div(RAbs(Sub(opp.estimated_fair_value, opp.current_price)),
             RMax(opp.current_price, R(1, 1000)))

\* Opportunity.expected_return
expected_return(opp) ==
    IF opp.bet_type \in PolymarketTypes /\ Gt(opp.current_price, Zero)
    THEN Mul(Div(One, opp.current_price), opp.confidence)
    ELSE Mul(Div(opp.estimated_fair_value, RMax(opp.current_price, R(1, 1000))),
             opp.confidence)

----------------------------------------------------------------------------
(* GamblersLogic *)

OptimismLevels == {"CONSERVATIVE", "MODERATE", "OPTIMISTIC", "DELUSIONAL", "ASCENDED"}

\* GamblersLogic._get_optimism_multiplier
optimism_multiplier ==
    CASE optimism_level = "CONSERVATIVE" -> R(8, 10)
      [] optimism_level = "MODERATE"     -> R(1, 1)
      [] optimism_level = "OPTIMISTIC"   -> R(13, 10)
      [] optimism_level = "DELUSIONAL"   -> R(16, 10)
      [] optimism_level = "ASCENDED"     -> R(2, 1)
      [] OTHER                           -> R(16, 10)

\* GamblersLogic._streak_multiplier
streak_multiplier ==
    IF current_streak_type = "win"
    THEN RMin(Add(One, Mul(R(consecutive_wins, 1), R(1, 10))), R(15, 10))
    ELSE IF current_streak_type = "loss"
    THEN RMin(Add(One, Mul(R(consecutive_losses, 1), R(15, 100))), R(18, 10))
    ELSE One

\* raw_kelly without the fractional-Kelly factor
raw_kelly_FullKelly(win_prob, odds) ==
    LET q == Sub(One, win_prob)
        kelly == Div(Sub(Mul(odds, win_prob), q), odds)
    IN  Mul(Mul(kelly, optimism_multiplier), streak_multiplier)

\* kelly_criterion before its last line: the fraction after the Kelly formula
\* and the three multipliers (lines 126-136)
raw_kelly(win_prob, odds) ==
    LET q == Sub(One, win_prob)
        kelly == Div(Sub(Mul(odds, win_prob), q), odds)
    IN  Mul(Mul(Mul(kelly, kelly_fraction), optimism_multiplier), streak_multiplier)

\* kelly_criterion without the clamp of its last line
kelly_criterion_Unclamped(win_prob, odds) ==
    IF Le(odds, Zero) THEN Zero ELSE raw_kelly(win_prob, odds)

\* GamblersLogic.kelly_criterion
kelly_criterion(win_prob, odds) ==
    IF Le(odds, Zero) THEN Zero
    ELSE RMax(RMin(raw_kelly(win_prob, odds), max_single_bet_pct), Zero)

\* GamblersLogic._estimate_win_probability
estimate_win_probability(opp) ==
    LET base_prob == opp.confidence
        momentum_bonus == Mul(opp.momentum_score, R(1, 10))
        volume_bonus == IF Gt(opp.volume_24h, R(10000, 1))
                        THEN RMin(Div(opp.volume_24h, R(100000, 1)), R(5, 100))
                        ELSE Zero
        optimism_bias == IF optimism_level = "DELUSIONAL" THEN R(5, 100) ELSE R(2, 100)
        prob == Add(Add(Add(base_prob, momentum_bonus), volume_bonus), optimism_bias)
    IN  RMax(RMin(prob, R(95, 100)), R(5, 100))

\* GamblersLogic._calculate_stop_loss
calculate_stop_loss(opp) ==
    LET stop_pct == IF Gt(opp.confidence, R(8, 10))
                    THEN Mul(stop_loss_pct, R(15, 10)) ELSE stop_loss_pct
    IN  IF opp.bet_type \in PolymarketTypes
        THEN RMax(Mul(opp.current_price, Sub(One, stop_pct)), R(1, 100))
        ELSE Mul(opp.current_price, Sub(One, stop_pct))

\* min_edge that a losing streak does not lower
min_edge_NoHalving == min_edge_threshold

\* The minimum edge evaluate_opportunity asks for (lines 174-179)
min_edge ==
    IF consecutive_losses >= 3 THEN Mul(min_edge_threshold, R(1, 2))
    ELSE min_edge_threshold

\* The tier of a bet fraction (lines 203-208, and 376 in _generate_rationale)
aggression_of(bet_pct) ==
    IF Gt(bet_pct, R(20, 100)) THEN "full_degen"
    ELSE IF Gt(bet_pct, R(10, 100)) THEN "aggressive"
    ELSE "calculated"

\* GamblersLogic.evaluate_opportunity: None, or the BetDecision; pick is the
\* template random.choice takes in _generate_rationale
evaluate_opportunity(opp, pick) ==
    LET edge == perceived_edge(opp)
        win_prob == estimate_win_probability(opp)
        odds == expected_return(opp)
        bet_pct == kelly_criterion(win_prob, odds)
        bet_usd == Mul(current_bankroll, bet_pct)
    IN  IF Lt(edge, min_edge) THEN <<>>
        ELSE IF Le(bet_pct, R(1, 1000)) THEN <<>>
        ELSE IF Lt(bet_usd, R(10, 100)) THEN <<>>
        ELSE << [ opportunity      |-> opp,
                  bet_size_pct     |-> bet_pct,
                  bet_size_usd     |-> bet_usd,
                  rationale        |-> <<aggression_of(bet_pct), pick>>,
                  aggression_level |-> aggression_of(bet_pct),
                  expected_payout  |-> Mul(Mul(bet_usd, odds), win_prob),
                  stop_loss_price  |-> calculate_stop_loss(opp) ] >>

\* The key rank_opportunities sorts by (lines 289-293)
SortKey(d) ==
    Mul(Mul(d.expected_payout, Add(One, d.opportunity.time_sensitivity)),
        IF d.aggression_level = "full_degen" THEN R(12, 10) ELSE One)

\* d put into ds, which is in descending order of the key, behind the
\* decisions whose key is not smaller
RECURSIVE Insert(_, _)
Insert(d, ds) ==
    IF ds = <<>> THEN <<d>>
    ELSE IF Ge(SortKey(Head(ds)), SortKey(d))
         THEN <<Head(ds)>> \o Insert(d, Tail(ds))
         ELSE <<d>> \o ds

\* list.sort(key, reverse=True): descending, equal keys in their first order
RECURSIVE SortDecisions(_)
SortDecisions(ds) ==
    IF ds = <<>> THEN <<>>
    ELSE Insert(ds[Len(ds)], SortDecisions(SubSeq(ds, 1, Len(ds) - 1)))

\* The loop of rank_opportunities (lines 281-285): the decisions of the
\* opportunities that got one; picks[i] is the template of the i-th
RECURSIVE Evaluated(_, _)
Evaluated(opps, picks) ==
    IF opps = <<>> THEN <<>>
    ELSE evaluate_opportunity(Head(opps), Head(picks))
         \o Evaluated(Tail(opps), Tail(picks))

\* GamblersLogic.rank_opportunities
rank_opportunities(opps, picks) == SortDecisions(Evaluated(opps, picks))

\* GamblersLogic.should_cut_losses
should_cut_losses ==
    \/ /\ Gt(peak_bankroll, Zero)
       /\ Gt(Div(Sub(peak_bankroll, current_bankroll), peak_bankroll), R(50, 100))
    \/ consecutive_losses >= 5

\* FloorLog2 that counts a doubling only once it is exceeded
RECURSIVE FloorLog2_Exceeded(_)
FloorLog2_Exceeded(x) ==
    IF Le(x, R(2, 1)) THEN 0 ELSE 1 + FloorLog2_Exceeded(Div(x, R(2, 1)))

\* int(math.log2(x)) for x > 1: the largest k with 2^k <= x
RECURSIVE FloorLog2(_)
FloorLog2(x) == IF Lt(x, R(2, 1)) THEN 0 ELSE 1 + FloorLog2(Div(x, R(2, 1)))

Opp(bet_type, current_price, fair, confidence, volume_24h, momentum, urgency) ==
    [ market_id            |-> IF bet_type \in PolymarketTypes THEN "0xmkt" ELSE "ETH",
      market_name          |-> IF bet_type \in PolymarketTypes THEN "Will it?" ELSE "ETH-USD",
      bet_type             |-> bet_type,
      current_price        |-> current_price,
      estimated_fair_value |-> fair,
      confidence           |-> confidence,
      volume_24h           |-> volume_24h,
      momentum_score       |-> momentum,
      time_sensitivity     |-> urgency,
      meta                 |-> [platform |-> IF bet_type \in PolymarketTypes
                                             THEN "polymarket" ELSE "base_dex"] ]

\* The opportunities evaluated: a Kelly fraction far above the cap, an edge
\* between half the threshold and the threshold, a high-conviction asset bet
\* with volume and momentum, a negative Kelly fraction, odds of zero, and a
\* small positive fraction.
Opportunities ==
    { Opp("poly_yes",  R(3, 10), R(1, 2),   R(7, 10), Zero,        Zero,    Zero),
      Opp("poly_no",   R(1, 2),  R(27, 50), R(3, 5),  Zero,        Zero,    R(1, 2)),
      Opp("dex_long",  R(2, 1),  R(3, 1),   R(9, 10), R(20000, 1), R(1, 2), One),
      Opp("poly_yes",  R(9, 10), R(1, 1),   R(1, 10), Zero,        Zero,    Zero),
      Opp("dex_short", R(1, 1),  R(1, 2),   Zero,     Zero,        R(-1, 1), Zero),
      Opp("dex_long",  R(1, 1),  R(2, 1),   R(1, 2),  Zero,        Zero,    Zero) }

\* What a scan returns to be ranked: a sure rejection ahead of an urgent
\* bet, and a small bet ahead of a large one
OpportunityLists ==
    { << Opp("poly_yes",  R(9, 10), R(1, 1),   R(1, 10), Zero,        Zero,    Zero),
         Opp("dex_long",  R(2, 1),  R(3, 1),   R(9, 10), R(20000, 1), R(1, 2), One) >>,
      << Opp("dex_long",  R(1, 1),  R(2, 1),   R(1, 2),  Zero,        Zero,    Zero),
         Opp("poly_yes",  R(3, 10), R(1, 2),   R(7, 10), Zero,        Zero,    Zero) >> }

RationalePicks == {1, 2}

Pnls == {R(-1, 2), Zero, R(2, 1)}

\* The results recorded: a win that made money, a loss that made none
Results == {r \in BOOLEAN \X Pnls :
               IF r[1] THEN Gt(r[2], Zero) ELSE Le(r[2], Zero)}

\* record_result with a switch of streak that leaves the other counter as it
\* was
record_result_NoReset(won, pnl) ==
    LET bankroll == Add(current_bankroll, pnl)
        peak == IF Gt(bankroll, peak_bankroll) THEN bankroll ELSE peak_bankroll
    IN  /\ total_bets < MaxBets
        /\ total_bets' = total_bets + 1
        /\ current_bankroll' = bankroll
        /\ peak_bankroll' = peak
        /\ doublings_achieved' =
              IF Gt(bankroll, peak_bankroll)
              THEN IF Gt(peak, starting_capital_usd)
                   THEN FloorLog2(Div(peak, starting_capital_usd)) ELSE 0
              ELSE doublings_achieved
        /\ winning_bets' = IF won THEN winning_bets + 1 ELSE winning_bets
        /\ IF won
           THEN IF current_streak_type = "win"
                THEN /\ consecutive_wins' = consecutive_wins + 1
                     /\ UNCHANGED <<current_streak_type, consecutive_losses>>
                ELSE /\ current_streak_type' = "win"
                     /\ consecutive_wins' = 1
                     /\ UNCHANGED consecutive_losses
           ELSE IF current_streak_type = "loss"
                THEN /\ consecutive_losses' = consecutive_losses + 1
                     /\ UNCHANGED <<current_streak_type, consecutive_wins>>
                ELSE /\ current_streak_type' = "loss"
                     /\ consecutive_losses' = 1
                     /\ UNCHANGED consecutive_wins
        /\ bet_history' = Append(bet_history, [won |-> won, pnl |-> pnl,
                                                bankroll_after |-> bankroll])

\* GamblersLogic.record_result: what it does to the engine
record_result(won, pnl) ==
    LET bankroll == Add(current_bankroll, pnl)
        peak == IF Gt(bankroll, peak_bankroll) THEN bankroll ELSE peak_bankroll
    IN  /\ total_bets < MaxBets
        /\ total_bets' = total_bets + 1
        /\ current_bankroll' = bankroll
        /\ peak_bankroll' = peak
        /\ doublings_achieved' =
              IF Gt(bankroll, peak_bankroll)
              THEN IF Gt(peak, starting_capital_usd)
                   THEN FloorLog2(Div(peak, starting_capital_usd)) ELSE 0
              ELSE doublings_achieved
        /\ winning_bets' = IF won THEN winning_bets + 1 ELSE winning_bets
        /\ IF won
           THEN IF current_streak_type = "win"
                THEN /\ consecutive_wins' = consecutive_wins + 1
                     /\ UNCHANGED <<current_streak_type, consecutive_losses>>
                ELSE /\ current_streak_type' = "win"
                     /\ consecutive_wins' = 1
                     /\ consecutive_losses' = 0
           ELSE IF current_streak_type = "loss"
                THEN /\ consecutive_losses' = consecutive_losses + 1
                     /\ UNCHANGED <<current_streak_type, consecutive_wins>>
                ELSE /\ current_streak_type' = "loss"
                     /\ consecutive_losses' = 1
                     /\ consecutive_wins' = 0
        /\ bet_history' = Append(bet_history, [won |-> won, pnl |-> pnl,
                                                bankroll_after |-> bankroll])

\* evaluate taking the stake out of the bankroll as it sizes the bet
evaluate_DebitsBankroll(opp, pick) ==
    /\ decision = <<>>
    /\ decision' = evaluate_opportunity(opp, pick)
    /\ current_bankroll' =
          IF decision' = <<>> THEN current_bankroll
          ELSE Sub(current_bankroll, decision'[1].bet_size_usd)
    /\ UNCHANGED <<consecutive_losses, consecutive_wins, total_bets,
                   winning_bets, current_streak_type, peak_bankroll,
                   doublings_achieved, bet_history>>
    /\ UNCHANGED ledgerVars /\ UNCHANGED <<disk, now, call, optimism_level>>

\* A call of GamblersLogic.evaluate_opportunity, its result kept in decision
\* until a result is recorded; the result does not depend on an earlier
\* one, so a second evaluation is taken from the state without a decision
evaluate(opp, pick) ==
    /\ decision = <<>>
    /\ decision' = evaluate_opportunity(opp, pick)
    /\ UNCHANGED engineVars
    /\ UNCHANGED ledgerVars /\ UNCHANGED <<disk, now, call, optimism_level>>

\* A call of GamblersLogic.rank_opportunities, its result kept like that of
\* evaluate
rank(opps, picks) ==
    /\ decision = <<>>
    /\ decision' = rank_opportunities(opps, picks)
    /\ UNCHANGED engineVars
    /\ UNCHANGED ledgerVars /\ UNCHANGED <<disk, now, call, optimism_level>>

\* The engine at every configured optimism level
EngineSpecInit ==
    /\ LedgerInit
    /\ EngineInit
    /\ disk = <<>>
    /\ now = 0
    /\ call = NoCall
    /\ optimism_level \in OptimismLevels
    /\ decision = <<>>
    /\ AgentConstructed

EngineNext ==
    \/ \E r \in Results :
           /\ record_result(r[1], r[2])
           /\ decision' = <<>>
           /\ UNCHANGED ledgerVars
           /\ UNCHANGED <<disk, now, call, optimism_level>>
           /\ UNCHANGED agentVars
    \/ \E opp \in Opportunities, pick \in RationalePicks :
           evaluate(opp, pick) /\ UNCHANGED agentVars
    \/ \E opps \in OpportunityLists :
          \E picks \in [1..Len(opps) -> RationalePicks] :
             rank(opps, picks) /\ UNCHANGED agentVars

EngineSpec == EngineSpecInit /\ [][EngineNext]_vars

----------------------------------------------------------------------------
(* TradeExecutor (trading/executor.py) *)

\* The members of the enum BetType (gamblers_logic.py lines 29-34)
BetTypeMembers == {"POLYMARKET_YES", "POLYMARKET_NO", "DEX_LONG", "DEX_SHORT",
                   "LIQUIDITY_SNIPE"}

\* The members _simulate_execution names in the tuple of its first test
\* (lines 204-205)
NamedLongMembers == {"POLYMARKET_YES", "DEX_LONG", "SOLANA_LONG", "PERP_LONG",
                     "HYPERLIQUID_LONG"}

\* SimulateRaises in an enum that has every member the executor names
SimulateRaises_EnumComplete == FALSE

\* _simulate_execution raises AttributeError as it builds that tuple: the
\* attribute lookup BetType.X fails for a name that is not a member
SimulateRaises == ~(NamedLongMembers \subseteq BetTypeMembers)

\* The bet types of the members of that tuple that exist
LongBetTypes == {"poly_yes", "dex_long"}

KnownPlatforms == {"polymarket", "base_dex", "solana_dex", "hyperliquid"}

\* decision.opportunity.meta.get("platform"), "" for None
Platform(d) == Get(d.opportunity.meta, "platform", "")

\* The slippage each _execute_* passes to _simulate_execution
Slippage(platform) ==
    CASE platform = "base_dex"    -> R(3, 100)
      [] platform = "hyperliquid" -> R(1, 1000)
      [] OTHER                    -> R(2, 100)

\* The fee rate of _simulate_execution (lines 211-219)
FeeRate(platform) ==
    CASE platform = "base_dex"    -> R(3, 1000)
      [] platform = "solana_dex"  -> R(1, 1000)
      [] platform = "hyperliquid" -> R(2, 10000)
      [] OTHER                    -> R(2, 1000)

\* What the chain answers a live swap: no ETH price, a wallet balance below
\* the swap amount, or both fine
Chains == {"no_price", "no_funds", "ok"}

\* How execute_bet ends for decision d: the error of the failure it returns,
\* the exception it raises, or "filled"
ExecOutcome(d, chain) ==
    IF Platform(d) \notin KnownPlatforms THEN "Unknown platform"
    ELSE IF Platform(d) = "base_dex" /\ live_mode
    THEN IF Get(d.opportunity.meta, "token_address", "") = ""
         THEN "No token address provided"
         ELSE IF chain = "no_price" THEN "Could not determine ETH price"
         ELSE IF chain = "no_funds" THEN "Insufficient ETH"
         ELSE IF SimulateRaises THEN "DEX execution error"
         ELSE "filled"
    ELSE IF SimulateRaises THEN "AttributeError"
    ELSE "filled"

\* Fills with the position opened before the live swap fails
Fills_BeforeDexError(outcome) == outcome \in {"filled", "DEX execution error"}

\* execute_bet reaches portfolio.open_position (line 236)
Fills(outcome) == outcome = "filled"

\* ExecutionResult(success=False, ...)
Failed(position_id, error) ==
    [ returned |-> TRUE, success |-> FALSE, position_id |-> position_id,
      executed_price |-> Zero, executed_size |-> Zero, fees |-> Zero,
      error |-> error, mode |-> "simulation", raised |-> "" ]

\* The arguments _simulate_execution opens the position with (lines 199-246);
\* slip is random.uniform(0, slippage)
SimulatedFill(d, slip) ==
    LET opp == d.opportunity
        executed_price == IF opp.bet_type \in LongBetTypes
                          THEN Mul(opp.current_price, Add(One, slip))
                          ELSE Mul(opp.current_price, Sub(One, slip))
        fees == Mul(d.bet_size_usd, FeeRate(Platform(d)))
    IN  [ platform          |-> Get(opp.meta, "platform", "unknown"),
          market_id         |-> opp.market_id,
          market_name       |-> opp.market_name,
          side              |-> IF opp.bet_type = "poly_yes" THEN "yes"
                                ELSE IF opp.bet_type = "poly_no" THEN "no"
                                ELSE IF opp.bet_type \in LongBetTypes THEN "long"
                                ELSE "short",
          entry_price       |-> executed_price,
          size_usd          |-> Sub(d.bet_size_usd, fees),
          stop_loss         |-> d.stop_loss_price,
          take_profit       |-> None,
          leverage          |-> IF Platform(d) = "hyperliquid"
                                THEN RMin(Get(opp.meta, "max_leverage", R(20, 1)),
                                          max_leverage)
                                ELSE None,
          liquidation_price |-> None ]

\* The ends of random.uniform(0, slippage), as a share of slippage
SlipPicks == {Zero, One}

\* TradeExecutor.execute_bet for decision d: position_id is the id drawn at
\* line 81, pick the share of the slippage drawn at line 203
ExecuteBet(d, position_id, pick, chain) ==
    LET outcome == ExecOutcome(d, chain)
        in == SimulatedFill(d, Mul(pick, Slippage(Platform(d))))
        fees == Mul(d.bet_size_usd, FeeRate(Platform(d)))
    IN  IF Fills(outcome)
        THEN /\ positions' = Put(positions, position_id,
                                 NewPosition(position_id, in, now))
             /\ current_balance' =
                    Sub(current_balance, Collateral(in.size_usd, in.leverage))
             /\ total_fees_paid' = Add(total_fees_paid, fees)
             /\ now' = now + 1
             /\ call' = Call("open_position", position_id, <<in>>,
                              in.entry_price,
                              <<NewPosition(position_id, in, now)>>)
             /\ result' =
                    IF outcome = "filled"
                    THEN [ returned |-> TRUE, success |-> TRUE,
                           position_id |-> position_id,
                           executed_price |-> in.entry_price,
                           executed_size |-> in.size_usd, fees |-> fees,
                           error |-> "", mode |-> "simulation", raised |-> "" ]
                    ELSE Failed(position_id, outcome)
             /\ UNCHANGED <<trade_history, total_realized_pnl, disk>>
        ELSE /\ result' =
                    IF outcome = "AttributeError"
                    THEN [NoResult EXCEPT !.position_id = position_id,
                                          !.raised = outcome]
                    ELSE Failed(position_id, outcome)
             /\ UNCHANGED <<ledgerVars, disk, now, call>>

\* A call of execute_bet with the decision evaluate returned
execute_bet(position_id, pick, chain) ==
    /\ decision # <<>>
    /\ ExecuteBet(decision[1], position_id, pick, chain)
    /\ decision' = <<>>
    /\ UNCHANGED engineVars
    /\ UNCHANGED <<optimism_level, live_mode>> /\ UNCHANGED loopVars

\* A snapshot with two open positions at their stops: a probability bet and
\* a leveraged perpetual
StoppedFile ==
    [ current_balance    |-> R(1, 5),
      total_realized_pnl |-> Zero,
      total_fees_paid    |-> Zero,
      positions          |->
          [pid \in {"pos_a", "pos_b"} |->
              IF pid = "pos_a"
              THEN PositionDict(
                     [NewPosition("pos_a",
                                  In("yes", R(1, 2), R(1, 5), R(2, 5), None,
                                     None, None), 0)
                        EXCEPT !.current_price = R(2, 5)])
              ELSE PositionDict(
                     [NewPosition("pos_b",
                                  In("long", R(1, 1), R(8, 1), R(99, 100), None,
                                     R(5, 1), None), 0)
                        EXCEPT !.current_price = R(99, 100)])],
      trade_count        |-> 0 ]

\* The opportunities whose decisions are executed: one per platform, a swap
\* with and without a token address, a short, an unknown platform and none
WithMeta(opp, meta) == [opp EXCEPT !.meta = meta]

ExecOpportunities ==
    { Opp("poly_yes", R(3, 10), R(1, 2), R(7, 10), Zero, Zero, Zero),
      Opp("dex_long", R(2, 1), R(3, 1), R(9, 10), R(20000, 1), R(1, 2), One),
      WithMeta(Opp("dex_long", R(2, 1), R(3, 1), R(9, 10), Zero, Zero, Zero),
               [platform |-> "base_dex", token_address |-> "0xtoken"]),
      WithMeta(Opp("dex_short", R(1, 1), R(1, 2), R(8, 10), Zero, Zero, Zero),
               [platform |-> "hyperliquid", max_leverage |-> R(10, 1)]),
      WithMeta(Opp("dex_long", R(2, 1), R(3, 1), R(9, 10), Zero, Zero, Zero),
               [platform |-> "solana_dex"]),
      WithMeta(Opp("poly_no", R(3, 10), R(1, 2), R(7, 10), Zero, Zero, Zero),
               [platform |-> "kalshi"]),
      WithMeta(Opp("dex_long", R(2, 1), R(3, 1), R(9, 10), Zero, Zero, Zero),
               [symbol |-> "ETH"]) }

\* The executor in simulation mode and in live mode with a wallet, over a
\* ledger that is new or restored from a snapshot
ExecSpecInit ==
    /\ LedgerInit
    /\ EngineInit
    /\ disk \in {<<>>, <<StoppedFile>>}
    /\ now = 0
    /\ call = NoCall
    /\ optimism_level = "DELUSIONAL"
    /\ decision = <<>>
    /\ live_mode \in BOOLEAN
    /\ result = NoResult
    /\ LoopConstructed

ExecNext ==
    \/ \E opp \in ExecOpportunities, pick \in RationalePicks :
           evaluate(opp, pick) /\ UNCHANGED agentVars
    \/ \E position_id \in PositionIds, pick \in SlipPicks, chain \in Chains :
           InTime /\ execute_bet(position_id, pick, chain)
    \/ InTime /\ load_state /\ UNCHANGED agentVars

ExecSpec == ExecSpecInit /\ [][ExecNext]_vars

----------------------------------------------------------------------------
(* AgentGambler (agent.py) *)

MaxCycles == 2

\* portfolio_state.json with a text that json.load rejects
CorruptFile == [text |-> "{ current_balance: 2.0, positi"]

\* A snapshot whose second position has no "quantity", so that Position()
\* rejects it
PartialFile ==
    [ current_balance    |-> R(5, 1),
      total_realized_pnl |-> R(3, 1),
      total_fees_paid    |-> Zero,
      positions          |->
          [pid \in {"pos_a", "pos_b"} |->
              IF pid = "pos_a" THEN StoppedFile.positions["pos_a"]
              ELSE [ position_id |-> "pos_b", platform |-> "base_dex",
                     market_id |-> "ETH", market_name |-> "ETH-USD",
                     side |-> "long", entry_price |-> One,
                     current_price |-> One, size_usd |-> One ]],
      key_order          |-> <<"pos_a", "pos_b">>,
      trade_count        |-> 0 ]

\* A snapshot that is a JSON object without the ledger's keys
BareFile == [trade_count |-> 0]

\* What the agent finds in data/portfolio_state.json when it starts
\* A snapshot of five open positions, each quoted at its stop
LosingIds == {"pos_1", "pos_2", "pos_3", "pos_4", "pos_5"}

LosingFile ==
    [ current_balance    |-> One,
      total_realized_pnl |-> Zero,
      total_fees_paid    |-> Zero,
      positions          |->
          [pid \in LosingIds |->
              PositionDict(
                [NewPosition(pid, In("yes", R(1, 2), R(1, 5), R(2, 5), None,
                                     None, None), 0)
                   EXCEPT !.current_price = R(2, 5)])],
      key_order          |-> <<"pos_1", "pos_2", "pos_3", "pos_4", "pos_5">>,
      trade_count        |-> 0 ]

AgentFiles == {<<>>, <<StoppedFile>>, <<PartialFile>>, <<CorruptFile>>,
               <<BareFile>>, <<LosingFile>>}

\* s[:n] of Python
Slice(seq, n) ==
    IF n >= 0 THEN SubSeq(seq, 1, IF n < Len(seq) THEN n ELSE Len(seq))
    ELSE SubSeq(seq, 1, IF Len(seq) + n > 0 THEN Len(seq) + n ELSE 0)

\* The orders a list can hold the ids of S in
Orders(S) ==
    {seq \in [1..Cardinality(S) -> S] :
        \A i, j \in 1..Cardinality(S) : seq[i] = seq[j] => i = j}

\* AgentGambler.start up to the call of _main_loop (lines 87-95)
start ==
    /\ pc = "new"
    /\ load_state
    /\ IF call'.raised # ""
       THEN pc' = "aborted" /\ UNCHANGED running
       ELSE pc' = "loop" /\ running' = TRUE
    /\ console' = IF call'.raised # "" THEN call'.raised ELSE "Agent started"
    /\ UNCHANGED <<live_mode, result, cycle_count, decisions, stopped>>

\* The test of the while loop of _main_loop and the start of a cycle (lines
\* 101-103)
loop_test ==
    /\ pc = "loop"
    /\ IF running
       THEN /\ cycle_count < MaxCycles
            /\ cycle_count' = cycle_count + 1
            /\ pc' = "scan"
       ELSE /\ pc' = "shutdown"
            /\ UNCHANGED cycle_count
    /\ UNCHANGED <<ledgerVars, disk, now, call>>
    /\ UNCHANGED engineVars
    /\ UNCHANGED <<optimism_level, decision, live_mode, result, running,
                   decisions, stopped, console>>

\* Steps 1 and 2 of a cycle and the head of _execute_decisions (lines
\* 109-119 and 184-187): opps is what _scan_all_markets returned
scan(opps, picks) ==
    /\ pc = "scan"
    /\ decisions' = Slice(rank_opportunities(opps, picks),
                          3 - Cardinality(OpenIds(positions)))
    /\ pc' = IF decisions' = <<>> THEN "monitor" ELSE "execute"
    /\ console' = IF opps = <<>> THEN "No opportunities this cycle"
                  ELSE "Found opportunities"
    /\ UNCHANGED <<ledgerVars, disk, now, call>>
    /\ UNCHANGED engineVars
    /\ UNCHANGED <<optimism_level, decision, live_mode, result, running,
                   cycle_count, stopped>>

\* Where the loop of _execute_decisions goes with rest left to take
AfterDecision(rest) == IF rest = <<>> THEN "monitor" ELSE "execute"

\* The two checks that stand before execute_bet, without the loss limit
Gate_NoHalt(d) ==
    IF Gt(d.bet_size_usd, available_balance(current_balance, positions))
    THEN "continue"
    ELSE "execute"

\* The two checks that stand before execute_bet (lines 189-199)
Gate(d) ==
    IF Gt(d.bet_size_usd, available_balance(current_balance, positions))
    THEN "continue"
    ELSE IF should_cut_losses THEN "break" ELSE "execute"

\* One turn of the loop of _execute_decisions (lines 187-212), and the
\* handler of _main_loop for what it raises (lines 152-154)
execute_decision(position_id, pick) ==
    /\ pc = "execute"
    /\ decisions # <<>>
    /\ UNCHANGED <<optimism_level, decision, live_mode, running, cycle_count,
                   stopped>>
    /\ LET d == Head(decisions)
       IN  CASE Gate(d) = "continue" ->
                /\ console' = "Skipping: insufficient balance"
                /\ decisions' = Tail(decisions)
                /\ pc' = AfterDecision(Tail(decisions))
                /\ UNCHANGED <<ledgerVars, disk, now, call, result>>
                /\ UNCHANGED engineVars
             [] Gate(d) = "break" ->
                /\ console' = "Loss limit reached. Pausing new entries."
                /\ decisions' = <<>>
                /\ pc' = "monitor"
                /\ UNCHANGED <<ledgerVars, disk, now, call, result>>
                /\ UNCHANGED engineVars
             [] Gate(d) = "execute" ->
                /\ ExecuteBet(d, position_id, pick, "ok")
                /\ IF ~result'.returned
                   THEN /\ console' = "Error in cycle"
                        /\ decisions' = <<>>
                        /\ pc' = "loop"
                        /\ UNCHANGED engineVars
                   ELSE IF result'.success
                   THEN /\ console' = "EXECUTED"
                        /\ record_result(TRUE, Zero)
                        /\ decisions' = Tail(decisions)
                        /\ pc' = AfterDecision(Tail(decisions))
                   ELSE /\ console' = "FAILED"
                        /\ decisions' = Tail(decisions)
                        /\ pc' = AfterDecision(Tail(decisions))
                        /\ UNCHANGED engineVars

\* The call of check_stop_losses in _monitor_positions (line 216); the ids
\* come in the order of the positions dict
monitor_positions ==
    /\ pc = "monitor"
    /\ check_stop_losses
    /\ stopped' \in Orders(call'.to_close)
    /\ pc' = IF stopped' = <<>> THEN "save" ELSE "closing"
    /\ UNCHANGED <<live_mode, result, running, cycle_count, decisions, console>>

\* The close of a stopped position (lines 218-221)
stop_out ==
    /\ pc = "closing"
    /\ stopped # <<>>
    /\ IF Head(stopped) \in DOMAIN positions
       THEN /\ close_position(Head(stopped),
                              positions[Head(stopped)].current_price,
                              "stop_loss")
            /\ pc' = "recording"
            /\ console' = "STOP LOSS triggered"
            /\ UNCHANGED stopped
       ELSE /\ stopped' = Tail(stopped)
            /\ pc' = IF Tail(stopped) = <<>> THEN "save" ELSE "closing"
            /\ UNCHANGED <<ledgerVars, disk, now, call, console>>
            /\ UNCHANGED engineVars
            /\ UNCHANGED <<optimism_level, decision>>
    /\ UNCHANGED <<live_mode, result, running, cycle_count, decisions>>

\* The result recorded for a stopped position (line 222)
record_stop ==
    /\ pc = "recording"
    /\ record_result(FALSE, Neg(Mul(positions[Head(stopped)].size_usd,
                                    stop_loss_pct)))
    /\ stopped' = Tail(stopped)
    /\ pc' = IF Tail(stopped) = <<>> THEN "save" ELSE "closing"
    /\ UNCHANGED <<ledgerVars, disk, now, call>>
    /\ UNCHANGED <<optimism_level, decision, live_mode, result, running,
                   cycle_count, decisions, console>>

\* The end of a cycle (lines 128-148): the snapshot, then the two exits
save_cycle ==
    /\ pc = "save"
    /\ save_state
    /\ LET value == total_portfolio_value(current_balance, positions)
       IN  IF Ge(value, moonshot_target_usd)
           THEN pc' = "shutdown" /\ console' = "MISSION ACCOMPLISHED"
           ELSE IF Lt(value, R(1, 100))
           THEN pc' = "shutdown" /\ console' = "REKT. Bankroll depleted."
           ELSE pc' = "loop" /\ console' = "Next scan"
    /\ UNCHANGED <<live_mode, result, running, cycle_count, decisions, stopped>>

\* AgentGambler._shutdown
shutdown ==
    /\ pc = "shutdown"
    /\ save_state
    /\ pc' = "done"
    /\ console' = "State saved. See you next time."
    /\ UNCHANGED <<live_mode, result, running, cycle_count, decisions, stopped>>

\* shutdown_handler leaving the process at once, without the snapshot
shutdown_handler_Exits ==
    /\ pc \notin {"new", "aborted", "done"}
    /\ running
    /\ running' = FALSE
    /\ pc' = "done"
    /\ console' = "Shutdown signal received..."
    /\ UNCHANGED <<ledgerVars, disk, now, call>>
    /\ UNCHANGED engineVars
    /\ UNCHANGED <<optimism_level, decision, live_mode, result, cycle_count,
                   decisions, stopped>>

\* AgentGambler._shutdown_handler, run for a SIGINT or SIGTERM that arrives
\* once start has installed it
shutdown_handler ==
    /\ pc \notin {"new", "aborted", "done"}
    /\ running
    /\ running' = FALSE
    /\ console' = "Shutdown signal received..."
    /\ UNCHANGED <<ledgerVars, disk, now, call>>
    /\ UNCHANGED engineVars
    /\ UNCHANGED <<optimism_level, decision, live_mode, result, pc,
                   cycle_count, decisions, stopped>>

\* The agent in simulation mode over what it may find on disk
AgentInit ==
    /\ LedgerInit
    /\ EngineInit
    /\ disk \in AgentFiles
    /\ now = 0
    /\ call = NoCall
    /\ optimism_level = "DELUSIONAL"
    /\ decision = <<>>
    /\ AgentConstructed

\* What a scan of the markets returns
ScanResults == {<<>>} \cup OpportunityLists

\* A step of the agent's own thread
AgentStep ==
    \/ start
    \/ loop_test
    \/ \E opps \in ScanResults :
          \E picks \in [1..Len(opps) -> RationalePicks] : scan(opps, picks)
    \/ \E position_id \in PositionIds, pick \in SlipPicks :
           execute_decision(position_id, pick)
    \/ monitor_positions
    \/ stop_out
    \/ record_stop
    \/ save_cycle
    \/ shutdown

AgentNext == AgentStep \/ shutdown_handler

AgentSpec == AgentInit /\ [][AgentNext]_vars

\* The interpreter keeps running the agent's thread
AgentFairSpec == AgentSpec /\ WF_vars(AgentStep)

----------------------------------------------------------------------------
(* Claims about the ledger, checked under Spec *)

\* The step is a call of open_position / close_position
IsOpenStep == call'.op = "open_position"
IsCloseStep == call'.op = "close_position"

\* collateral as the specification defines it: size_usd/leverage if
\* leverage > 1, else size_usd
SpecCollateral(size_usd, leverage) ==
    IF leverage # None /\ Gt(leverage, One) THEN Div(size_usd, leverage)
    ELSE size_usd

\* C1: cash is never over-allocated: every open_position locks collateral no
\* greater than the cash held immediately before the call, so an open never
\* takes current_balance from non-negative to negative.
C1_NeverOverAllocates ==
    [][IsOpenStep =>
         /\ Le(SpecCollateral(call'.input[1].size_usd, call'.input[1].leverage),
               current_balance)
         /\ (Ge(current_balance, Zero) => Ge(current_balance', Zero))]_vars

\* C2: an open_position whose collateral is greater than the current cash
\* leaves cash, the positions map, trade_history and the cumulative totals
\* exactly as they were.
C2_InsufficientFundsRejected ==
    [][(/\ IsOpenStep
        /\ Gt(SpecCollateral(call'.input[1].size_usd, call'.input[1].leverage),
              current_balance))
       => UNCHANGED ledgerVars]_vars

\* C3: an open_position with entry_price <= 0 or size_usd <= 0 is rejected
\* before any mutation: no position is inserted and cash is unchanged.
C3_ValidationRejected ==
    [][(/\ IsOpenStep
        /\ \/ Le(call'.input[1].entry_price, Zero)
           \/ Le(call'.input[1].size_usd, Zero))
       => UNCHANGED <<positions, current_balance>>]_vars

\* C4: a successful open_position (valid price and size, collateral within
\* cash, a new id) leaves total_portfolio_value as it was before the call.
C4_OpenKeepsPortfolioValue ==
    [][(/\ IsOpenStep
        /\ Gt(call'.input[1].entry_price, Zero)
        /\ Gt(call'.input[1].size_usd, Zero)
        /\ Le(SpecCollateral(call'.input[1].size_usd, call'.input[1].leverage),
              current_balance)
        /\ call'.position_id \notin DOMAIN positions)
       => total_portfolio_value(current_balance', positions')
            = total_portfolio_value(current_balance, positions)]_vars

\* C6: closed is terminal: a position stored as closed under an id is never
\* open under that id after any ledger operation (an open_position taken
\* with a valid price and size and collateral within cash, a close, a price
\* update, a load).
C6_ClosedIsTerminal ==
    [][(IsOpenStep => /\ Gt(call'.input[1].entry_price, Zero)
                      /\ Gt(call'.input[1].size_usd, Zero)
                      /\ Le(SpecCollateral(call'.input[1].size_usd,
                                           call'.input[1].leverage),
                            current_balance))
       => \A pid \in DOMAIN positions :
             (positions[pid].status = "closed" /\ pid \in DOMAIN positions')
             => positions'[pid].status # "open"]_vars

\* C7: close_position on an id that is absent or whose position is already
\* closed returns no trade record and changes nothing in the ledger; hence a
\* second close of the position just closed credits no cash and appends no
\* TradeRecord.
C7_CloseAbsentOrClosedIsNoOp ==
    [][/\ (/\ IsCloseStep
           /\ \/ call'.position_id \notin DOMAIN positions
              \/ positions[call'.position_id].status # "open")
          => (call'.ret = <<>> /\ UNCHANGED ledgerVars)
       /\ (/\ IsCloseStep
           /\ call.op = "close_position"
           /\ call.ret # <<>>
           /\ call'.position_id = call.position_id)
          => (/\ current_balance' = current_balance
              /\ trade_history' = trade_history)]_vars

\* C7 witness: a close of an already closed position has just returned None
C7_Witness ==
    /\ call.op = "close_position"
    /\ call.ret = <<>>
    /\ call.position_id \in DOMAIN positions
    /\ positions[call.position_id].status = "closed"
    /\ Len(trade_history) = 1
    /\ trade_history[1].position_id = call.position_id

\* The P&L of closing position p at exit_price, as the specification states it
SpecPnl(p, exit_price) ==
    LET base == IF p.side \in {"yes", "long"}
                THEN Mul(Sub(exit_price, p.entry_price), p.quantity)
                ELSE Mul(Sub(p.entry_price, exit_price), p.quantity)
    IN  IF p.leverage # None /\ Gt(p.leverage, One) THEN Mul(base, p.leverage)
        ELSE base

\* C8: a successful close_position(id, exit_price) computes the side-aware,
\* leverage-multiplied P&L, increases cash by collateral + pnl and
\* realized_pnl_total by pnl, appends exactly one TradeRecord carrying that
\* pnl, returns it, and sets the status to closed.
C8_CloseRealizesPnl ==
    [][(/\ IsCloseStep
        /\ call'.position_id \in DOMAIN positions
        /\ positions[call'.position_id].status = "open")
       => LET p == positions[call'.position_id]
              pnl == SpecPnl(p, call'.price)
          IN  /\ p.side \in {"yes", "long", "no", "short"}
              /\ current_balance' =
                   Add(current_balance,
                       Add(SpecCollateral(p.size_usd, p.leverage), pnl))
              /\ total_realized_pnl' = Add(total_realized_pnl, pnl)
              /\ Len(call'.ret) = 1
              /\ call'.ret[1].realized_pnl = pnl
              /\ call'.ret[1].exit_price = call'.price
              /\ trade_history' = Append(trade_history, call'.ret[1])
              /\ positions'[call'.position_id].status = "closed"]_vars

\* C8 witness: a leveraged short-equivalent position has just been closed
\* with a P&L that is not zero
C8_Witness ==
    /\ call.op = "close_position"
    /\ call.ret # <<>>
    /\ call.ret[1].side \in {"no", "short"}
    /\ call.ret[1].realized_pnl # Zero
    /\ positions[call.position_id].leverage # None
    /\ current_balance # call.balance_before

\* C9: open_position followed immediately by close_position of the same id at
\* the entry price yields a TradeRecord with realized_pnl = 0 and restores
\* cash and realized_pnl_total to their values before the open.
C9_OpenCloseRoundTrip ==
    [][(/\ call.op = "open_position"
        /\ IsCloseStep
        /\ call'.position_id = call.position_id
        /\ call'.price = call.price)
       => /\ Len(call'.ret) = 1
          /\ call'.ret[1].realized_pnl = Zero
          /\ current_balance' = call.balance_before
          /\ total_realized_pnl' = call.realized_before]_vars

\* C9 witness: a leveraged position was closed at its entry price right after
\* it was opened
C9_Witness ==
    /\ call.op = "close_position"
    /\ call.ret # <<>>
    /\ call.ret[1].exit_price = call.ret[1].entry_price
    /\ call.ret[1].hold_duration_mins = R(1, 60)
    /\ positions[call.position_id].leverage # None
    /\ call.ret[1].realized_pnl = Zero

\* C10: save() followed by load() into a freshly constructed ledger
\* reproduces identical cash, totals and positions map.
C10_SaveLoadRoundTrip ==
    LET file == <<Snapshot(current_balance, total_realized_pnl, total_fees_paid,
                           positions, trade_history)>>
        loaded == LoadState(starting_capital_usd, Zero, Zero, EmptyMap, file, now)
    IN  /\ loaded.current_balance = current_balance
        /\ loaded.total_realized_pnl = total_realized_pnl
        /\ loaded.total_fees_paid = total_fees_paid
        /\ loaded.positions = positions

\* C15: check_stop_losses changes nothing in the ledger and returns exactly
\* the ids of the positions that are open, have a stop_loss and breach it
\* direction-aware: current_price <= stop_loss for yes/long, current_price >=
\* stop_loss for no/short; never a closed position or one without a stop.
C15_CheckStopLossesReadsOnly ==
    [][call'.op = "check_stop_losses" =>
         /\ UNCHANGED <<ledgerVars, disk>>
         /\ call'.to_close =
               {pid \in DOMAIN positions :
                   LET p == positions[pid]
                   IN  /\ p.status = "open"
                       /\ p.stop_loss # None
                       /\ IF p.side \in {"yes", "long"}
                          THEN Le(p.current_price, p.stop_loss)
                          ELSE /\ p.side \in {"no", "short"}
                               /\ Ge(p.current_price, p.stop_loss)}
         /\ \A pid \in call'.to_close :
               /\ positions'[pid].status # "closed"
               /\ positions'[pid].stop_loss # None]_vars

\* C15 witness: check_stop_losses returned a short-equivalent position whose
\* price had risen to its stop and left out an open long-equivalent one
\* above its stop
C15_Witness ==
    /\ call.op = "check_stop_losses"
    /\ \E pid \in call.to_close :
          /\ positions[pid].side \in {"no", "short"}
          /\ Gt(positions[pid].current_price, positions[pid].entry_price)
    /\ \E pid \in DOMAIN positions \ call.to_close :
          /\ positions[pid].status = "open"
          /\ positions[pid].side \in {"yes", "long"}
          /\ positions[pid].stop_loss # None

----------------------------------------------------------------------------
(* Claims about the risk engine, checked under EngineSpec *)

\* Win probabilities and odds handed to the sizing formula besides those of
\* the opportunities: the clamp's ends, and odds that are negative, zero,
\* tiny and large
KellyProbs == {R(5, 100), R(1, 2), R(95, 100)}
KellyOdds == {R(-1, 1), Zero, R(1, 100), One, R(100, 1)}

\* C5: in every engine state reached through record_result, at every
\* optimism level, the fraction the sizing formula returns lies in
\* [0, max_single_bet_pct]; and a decision returned by evaluate has
\* bet_size_usd = bankroll * bet_size_pct with bet_size_pct in
\* (0, max_single_bet_pct], so bet_size_usd <= bankroll * max_single_bet_pct.
C5_BetFractionClamped ==
    /\ \A win_prob \in KellyProbs, odds \in KellyOdds :
          LET f == kelly_criterion(win_prob, odds)
          IN  Le(Zero, f) /\ Le(f, max_single_bet_pct)
    /\ \A opp \in Opportunities :
          LET f == kelly_criterion(estimate_win_probability(opp),
                                   expected_return(opp))
          IN  Le(Zero, f) /\ Le(f, max_single_bet_pct)
    /\ decision # <<>> =>
          /\ Gt(decision[1].bet_size_pct, Zero)
          /\ Le(decision[1].bet_size_pct, max_single_bet_pct)
          /\ decision[1].bet_size_usd
               = Mul(current_bankroll, decision[1].bet_size_pct)
          /\ Le(decision[1].bet_size_usd, Mul(current_bankroll, max_single_bet_pct))

\* C5 witness: after six straight losses a decision was returned whose
\* fraction before the clamp was more than twice the cap, sized at the cap
C5_Witness ==
    /\ consecutive_losses >= 6
    /\ decision # <<>>
    /\ Gt(raw_kelly(estimate_win_probability(decision[1].opportunity),
                    expected_return(decision[1].opportunity)),
          R(1, 2))
    /\ decision[1].bet_size_pct = R(1, 4)
    /\ decision[1].bet_size_usd = Mul(current_bankroll, R(1, 4))

\* C13: in every engine state reached through record_result,
\* should_cut_losses() is true whenever current_bankroll <= 0.5 *
\* peak_bankroll, the bankroll at exactly half of the peak included.
C13_CutAtHalfOfPeak ==
    Le(current_bankroll, Mul(R(1, 2), peak_bankroll)) => should_cut_losses

\* The outcome of the i-th recorded result as a streak type
Outcome(h, i) == IF h[i].won THEN "win" ELSE "loss"

\* The length of the run of identical outcomes the history h ends with
RunLength(h) ==
    IF h = <<>> THEN 0
    ELSE LET n == Len(h)
             first == CHOOSE i \in 1..n :
                         /\ \A j \in i..n : h[j].won = h[n].won
                         /\ (i > 1 => h[i - 1].won # h[n].won)
         IN  n - first + 1

\* C14: streak transition rule of record_result(won, pnl): an outcome of the
\* active streak's type adds 1 to the matching counter and the other stays 0;
\* an outcome of the other type (or with no streak active) switches the
\* type, sets the new type's counter to 1 and the opposite one to 0.  Hence
\* consecutive_wins and consecutive_losses are never both positive and the
\* positive one is the length of the current run of identical outcomes.
C14_StreakTransition ==
    /\ [][Len(bet_history') = Len(bet_history) + 1 =>
            LET type == Outcome(bet_history', Len(bet_history'))
                mine == IF type = "win" THEN consecutive_wins
                        ELSE consecutive_losses
                mine_after == IF type = "win" THEN consecutive_wins'
                              ELSE consecutive_losses'
                other == IF type = "win" THEN consecutive_losses
                         ELSE consecutive_wins
                other_after == IF type = "win" THEN consecutive_losses'
                               ELSE consecutive_wins'
            IN  /\ current_streak_type' = type
                /\ IF current_streak_type = type
                   THEN mine_after = mine + 1 /\ other = 0 /\ other_after = 0
                   ELSE mine_after = 1 /\ other_after = 0]_vars
    /\ [](/\ ~(consecutive_wins > 0 /\ consecutive_losses > 0)
           /\ (bet_history = <<>> =>
                 (consecutive_wins = 0 /\ consecutive_losses = 0))
           /\ (bet_history # <<>> =>
                 IF bet_history[Len(bet_history)].won
                 THEN consecutive_wins = RunLength(bet_history)
                 ELSE consecutive_losses = RunLength(bet_history)))

\* C14 witness: a run of two losses that followed a run of two wins
C14_Witness ==
    /\ Len(bet_history) = 4
    /\ bet_history[1].won /\ bet_history[2].won
    /\ ~bet_history[3].won /\ ~bet_history[4].won
    /\ consecutive_losses = 2
    /\ consecutive_wins = 0
    /\ current_streak_type = "loss"

\* The sizing fields of a decision
Sizing(d) == <<d.bet_size_pct, d.bet_size_usd, d.aggression_level,
               d.expected_payout, d.stop_loss_price>>

\* C17: all risk-engine state mutation happens through record_result: a
\* step that records no result (an evaluate_opportunity, a
\* rank_opportunities) leaves current_bankroll, peak_bankroll,
\* consecutive_wins, consecutive_losses, the streak type, total_bets and
\* winning_bets unchanged, should_cut_losses reads them only, and evaluating
\* the opportunity of a decision again before the next record_result yields
\* the same sizing fields.
C17_OnlyRecordResultMutates ==
    /\ [][Len(bet_history') = Len(bet_history) =>
            /\ UNCHANGED engineVars
            /\ should_cut_losses' = should_cut_losses]_vars
    /\ [](\A i \in 1..Len(decision) : \A pick \in RationalePicks :
             LET again == evaluate_opportunity(decision[i].opportunity, pick)
             IN  /\ again # <<>>
                 /\ Sizing(again[1]) = Sizing(decision[i]))

\* C17 witness: two decisions ranked in an engine that has lost three bets
\* running, the more urgent one put first
C17_Witness ==
    /\ Len(decision) = 2
    /\ consecutive_losses = 3
    /\ Gt(SortKey(decision[1]), SortKey(decision[2]))
    /\ Lt(decision[1].opportunity.time_sensitivity,
          decision[2].opportunity.time_sensitivity) = FALSE

----------------------------------------------------------------------------
(* Claims about the executor, checked under ExecSpec *)

\* C12: the ledger is mutated by an execution only when the fill succeeds:
\* whenever execute_bet returns success=false (unknown platform, missing token
\* address, execution error) cash, positions and totals are unchanged, and a
\* position appears or changes in the ledger only together with a result
\* whose success is true.
C12_LedgerMutatedOnlyOnSuccess ==
    [][(decision # <<>> /\ decision' = <<>>) =>
         /\ (result'.returned /\ ~result'.success) => UNCHANGED ledgerVars
         /\ positions' # positions => (result'.returned /\ result'.success)
         /\ ~result'.returned => UNCHANGED ledgerVars]_vars

\* C12 witness: over a ledger restored from a snapshot, a live swap has
\* returned a failure for an execution error and another execution has
\* failed for its platform, the ledger still as it was loaded
C12_Witness ==
    /\ result.returned
    /\ ~result.success
    /\ result.error \in {"DEX execution error", "Unknown platform"}
    /\ call.op = "load_state"
    /\ DOMAIN positions = {"pos_a", "pos_b"}
    /\ current_balance = R(1, 5)

----------------------------------------------------------------------------
(* Claims about the agent, checked under AgentSpec and AgentFairSpec *)

\* C11: every public ledger operation is all-or-nothing: when open_position,
\* close_position or load_state raises, cash, positions, trade_history and
\* the totals are what they were before the call; load_state never leaves
\* the cash overwritten with only some of the snapshot's positions inserted.
C11_LedgerOperationsAtomic ==
    [][(call' # call /\ call'.raised # "") => UNCHANGED ledgerVars]_vars

\* C16: load_state on a corrupt snapshot is recovered: startup is not
\* aborted, nothing is raised to the caller, the ledger holds its defaults
\* (the configured capital, zero totals) and no position.
C16_CorruptSnapshotRecovered ==
    (call.op = "load_state" /\ disk # <<>> /\ ~IsJson(disk[1])) =>
        /\ call.raised = ""
        /\ pc # "aborted"
        /\ current_balance = starting_capital_usd
        /\ total_realized_pnl = Zero
        /\ total_fees_paid = Zero
        /\ positions = EmptyMap

C19_NoEntryWhileHalted ==
    [][(pc = "execute" /\ should_cut_losses /\ decisions' # decisions) =>
          /\ UNCHANGED <<ledgerVars, result, disk>>
          /\ UNCHANGED engineVars
          /\ pc' \in {"execute", "monitor"}
          /\ ~Gt(Head(decisions).bet_size_usd,
                 available_balance(current_balance, positions)) =>
                (decisions' = <<>> /\ pc' = "monitor")]_vars

\* C19 witness: after the stop-outs of the first cycle took the bankroll
\* more than half below its peak, the second cycle's decisions were dropped
C19_Witness ==
    /\ console = "Loss limit reached. Pausing new entries."
    /\ cycle_count = 2
    /\ pc = "monitor"
    /\ decisions = <<>>
    /\ should_cut_losses
    /\ consecutive_losses = 2
    /\ OpenIds(positions) = {}

\* C20: a shutdown signal changes nothing but the running flag, so the
\* operation and the cycle it arrives in go on; once the flag is cleared
\* the loop exits and the ledger is saved as it then is.
C20_ShutdownCompletesCycle ==
    /\ [][(running /\ ~running') =>
            /\ UNCHANGED <<ledgerVars, disk, now, call>>
            /\ UNCHANGED engineVars
            /\ UNCHANGED <<pc, decisions, stopped, cycle_count, result>>]_vars
    /\ (~running /\ pc \notin {"new", "aborted"}) ~>
           /\ pc = "done"
           /\ disk = <<Snapshot(current_balance, total_realized_pnl,
                                total_fees_paid, positions, trade_history)>>

\* C20 witness: the signal arrived between the close of a stopped position
\* and the recording of its result
C20_Witness ==
    /\ ~running
    /\ pc = "recording"
    /\ console = "Shutdown signal received..."
    /\ call.op = "close_position"

\* The positions of a cycle between its start and its end
CyclePcs == {"scan", "execute", "monitor", "closing", "recording", "save"}

\* C21: every cycle that starts goes through scan, evaluate, execute, monitor
\* and persist in this order and writes the snapshot once: a cycle ends (the
\* loop test is reached again) only from its save step, and the save step
\* is entered only from the monitor step, also when the scan, the evaluation
\* or the execution fails.
C21_CycleEndsWithSave ==
    [][/\ (pc \in CyclePcs /\ pc' \in {"loop", "shutdown"}) => pc = "save"
       /\ (pc # "save" /\ pc' = "save") =>
             pc \in {"monitor", "closing", "recording"}
       /\ (pc \in CyclePcs /\ disk' # disk) => pc = "save"]_vars

\* C26: the engine's bankroll tracks the ledger: the pnl recorded for a
\* closed position is the realized_pnl of that position's TradeRecord, so
\* the bankroll moves by what the ledger realized.
C26_BankrollTracksLedger ==
    [][bet_history' # bet_history =>
          /\ trade_history # <<>>
          /\ bet_history'[Len(bet_history')].pnl =
                trade_history[Len(trade_history)].realized_pnl
          /\ Sub(current_bankroll', current_bankroll) =
                trade_history[Len(trade_history)].realized_pnl]_vars

\* C29: the risk halt is a pause: whenever five consecutive losses have made
\* should_cut_losses true, the agent later reaches a state in which
\* should_cut_losses is false again.
C29_HaltIsPause ==
    (consecutive_losses >= 5) ~> ~should_cut_losses

----------------------------------------------------------------------------
(* Claims about simulated execution, checked under ExecSpec *)

\* The side the claim derives from a bet type
SpecSide(bet_type) ==
    CASE bet_type = "poly_yes" -> "yes"
      [] bet_type = "poly_no" -> "no"
      [] bet_type = "dex_long" -> "long"
      [] OTHER -> "short"

\* C30: in simulation mode execute_bet for a decision tagged polymarket,
\* base_dex, solana_dex or hyperliquid raises nothing, returns success and
\* leaves exactly one new open position under the returned id, with size_usd
\* = bet_size_usd - fees, the decision's stop_loss_price as its stop and the
\* side of the opportunity's bet type.
C30_SimulatedBetFills ==
    [][(/\ decision # <<>>
        /\ decision' = <<>>
        /\ ~live_mode
        /\ Platform(decision[1]) \in KnownPlatforms) =>
          /\ result'.raised = ""
          /\ result'.returned
          /\ result'.success
          /\ OpenIds(positions') = OpenIds(positions) \cup {result'.position_id}
          /\ result'.position_id \notin OpenIds(positions)
          /\ positions'[result'.position_id].size_usd =
                Sub(decision[1].bet_size_usd, result'.fees)
          /\ positions'[result'.position_id].stop_loss =
                decision[1].stop_loss_price
          /\ positions'[result'.position_id].side =
                SpecSide(decision[1].opportunity.bet_type)]_vars

----------------------------------------------------------------------------
(* Claims about sizing, threshold and peak, checked under EngineSpec *)

\* clamp(x, lo, hi)
Clamp(x, lo, hi) == IF Lt(x, lo) THEN lo ELSE IF Gt(x, hi) THEN hi ELSE x

\* The bet fraction of the specified pipeline for a win probability p and
\* odds b > 0
SpecBetPct(p, b) ==
    LET kelly == Div(Sub(Mul(b, p), Sub(One, p)), b)
    IN  Clamp(Mul(Mul(Mul(kelly, kelly_fraction), optimism_multiplier),
                  streak_multiplier),
              Zero, max_single_bet_pct)

SpecTier(pct) ==
    IF Gt(pct, R(20, 100)) THEN "full_degen"
    ELSE IF Gt(pct, R(10, 100)) THEN "aggressive" ELSE "calculated"

\* The opportunity and the engine of the specified scenario
Scenario(opp) ==
    /\ opp.bet_type \in PolymarketTypes
    /\ opp.current_price = R(30, 100)
    /\ opp.confidence = R(70, 100)
    /\ opp.momentum_score = Zero
    /\ opp.volume_24h = Zero
    /\ optimism_level = "DELUSIONAL"
    /\ current_streak_type = "none"
    /\ current_bankroll = R(2, 1)

\* C22: every decision evaluate produces is sized by the pipeline: its
\* fraction is the clamped product of the Kelly fraction, the Kelly
\* multiplier, the optimism multiplier and the streak multiplier, its stake
\* is bankroll times fraction, its tier follows the fraction; in the
\* scenario of the specification the decision is 0.25, 0.50, full_degen.
C22_SizingPipeline ==
    \A i \in 1..Len(decision) :
        LET d == decision[i]
            p == estimate_win_probability(d.opportunity)
            b == expected_return(d.opportunity)
        IN  /\ Gt(b, Zero)
            /\ d.bet_size_pct = SpecBetPct(p, b)
            /\ d.bet_size_usd = Mul(current_bankroll, d.bet_size_pct)
            /\ d.aggression_level = SpecTier(d.bet_size_pct)
            /\ Scenario(d.opportunity) =>
                  /\ p = R(75, 100)
                  /\ d.bet_size_pct = R(25, 100)
                  /\ d.bet_size_usd = R(50, 100)
                  /\ d.aggression_level = "full_degen"

\* C22 witness: the decision of the scenario
C22_Witness ==
    /\ Len(decision) = 1
    /\ Scenario(decision[1].opportunity)
    /\ total_bets = 0
    /\ decision[1].bet_size_usd = R(1, 2)
    /\ decision[1].aggression_level = "full_degen"

\* The threshold the specification names for the current streak
SpecThreshold ==
    IF consecutive_losses >= 3 THEN Div(min_edge_threshold, R(2, 1))
    ELSE min_edge_threshold

\* evaluate's two rejections on size (lines 193 and 199)
TooSmall(opp) ==
    LET pct == kelly_criterion(estimate_win_probability(opp),
                               expected_return(opp))
    IN  Le(pct, R(1, 1000)) \/ Lt(Mul(current_bankroll, pct), R(10, 100))

\* C23: evaluate rejects an opportunity for its edge exactly when the edge
\* is below the threshold, which is the configured one while fewer than
\* three losses are consecutive and half of it from the third on: an edge
\* between half the threshold and the threshold is kept after three losses
\* in a row and rejected again after the next win.
C23_StreakThreshold ==
    [](/\ \A i \in 1..Len(decision) :
             Ge(perceived_edge(decision[i].opportunity), SpecThreshold)
       /\ \A opp \in Opportunities :
             LET kept == evaluate_opportunity(opp, 1) # <<>>
             IN  IF Lt(perceived_edge(opp), SpecThreshold) THEN ~kept
                 ELSE kept <=> ~TooSmall(opp))

\* C23 witness: after a win and then three losses in a row, a decision for
\* an opportunity whose edge is below the configured threshold
C23_Witness ==
    /\ consecutive_losses = 3
    /\ winning_bets = 1
    /\ Len(decision) = 1
    /\ Lt(perceived_edge(decision[1].opportunity), min_edge_threshold)
    /\ Ge(perceived_edge(decision[1].opportunity),
          Div(min_edge_threshold, R(2, 1)))

RECURSIVE Pow2(_)
Pow2(k) == IF k = 0 THEN 1 ELSE 2 * Pow2(k - 1)

\* C28: the peak is never below the bankroll nor below the starting capital
\* and never decreases; doublings_achieved never decreases and is the floor
\* of log2(peak / starting capital); the drawdown is never negative.
C28_PeakAndDoublings ==
    /\ [](/\ Ge(peak_bankroll, current_bankroll)
          /\ Ge(peak_bankroll, starting_capital_usd)
          /\ doublings_achieved >= 0
          /\ Le(Mul(R(Pow2(doublings_achieved), 1), starting_capital_usd),
                peak_bankroll)
          /\ Lt(peak_bankroll,
                Mul(R(Pow2(doublings_achieved + 1), 1), starting_capital_usd))
          /\ Ge(Div(Sub(peak_bankroll, current_bankroll), peak_bankroll), Zero))
    /\ [][/\ Ge(peak_bankroll', peak_bankroll)
          /\ doublings_achieved' >= doublings_achieved]_vars

\* C28 witness: the bankroll went from 2 to 8, two doublings, and then lost
C28_Witness ==
    /\ peak_bankroll = R(8, 1)
    /\ doublings_achieved = 2
    /\ Lt(current_bankroll, peak_bankroll)
    /\ consecutive_losses = 1

----------------------------------------------------------------------------
(* Claims about the ledger's totals, checked under Spec *)

\* The collateral locked by the open positions
LockedCollateral(pos) ==
    RSum([pid \in OpenIds(pos) |->
             Collateral(pos[pid].size_usd, pos[pid].leverage)], OpenIds(pos))

\* C24: cash is conserved: on a ledger that has only been opened, priced and
\* closed (no snapshot written or read), also when a position id is used
\* again, current_balance plus the collateral of the open positions equals
\* starting_balance plus total_realized_pnl.
C24_CashConserved ==
    disk = <<>> =>
        Add(current_balance, LockedCollateral(positions)) =
            Add(starting_capital_usd, total_realized_pnl)

\* The sum of realized_pnl over a trade history
RECURSIVE SumRealized(_)
SumRealized(history) ==
    IF history = <<>> THEN Zero
    ELSE Add(Head(history).realized_pnl, SumRealized(Tail(history)))

ClosedIds(pos) == {pid \in DOMAIN pos : pos[pid].status = "closed"}

\* C27: in every ledger state, also one restored by load_state after a
\* restart, total_realized_pnl is the sum of realized_pnl over trade_history
\* and trade_history has one record per closed position.
C27_HistoryMatchesTotals ==
    /\ total_realized_pnl = SumRealized(trade_history)
    /\ Len(trade_history) = Cardinality(ClosedIds(positions))

----------------------------------------------------------------------------
(* Claims about the stop of a new position, checked under ExecSpec *)

\* The position lines 225-246 of _simulate_execution hand to open_position
\* for decision d when the slippage drawn is the share pick of the maximum
EntryPosition(d, pick) ==
    NewPosition("pos_a", SimulatedFill(d, Mul(pick, Slippage(Platform(d)))), now)

====
